---- MODULE Spec2Model ----
(***************************************************************************)
(* Client-side model registry of Z-Image-Local-MLX: the zustand store      *)
(* (frontend/src/store.ts, here src/frontend/src/types.ts lines 119-265)   *)
(* and the WebSocket message dispatch of App.tsx (src/unnamed/part_001     *)
(* lines 307-401).                                                         *)
(*                                                                         *)
(* A Model record keeps the four fields the store's handlers read or       *)
(* write: id, state, progress, error.  name, description, size_gb,         *)
(* recommended_* and is_current are carried along untouched by every       *)
(* handler ("...m") and are left out.  JavaScript's null and undefined are *)
(* both Null: the only place the code tells them from a value is "??",     *)
(* which treats the two alike.                                             *)
(*                                                                         *)
(* The generation fields of the same store (isGenerating, generationError, *)
(* generatedImages, currentView, currentPrompt) and GeneratePage's         *)
(* handleGenerate (src/unnamed/part_000 lines 195-247) are the second part *)
(* of the model; SpecGenerate runs them.                                   *)
(*                                                                         *)
(* The useWebSocket hook (frontend/src/hooks/useWebSocket.ts, here         *)
(* src/start.sh lines 108-236) with the WebSocket objects it creates is    *)
(* the third part: SpecSession runs the hook alone, SpecDispatch with the   *)
(* message dispatch and SpecPage with GeneratePage in use.                 *)
(*                                                                         *)
(* SpecSync runs App against a server that holds one model and answers     *)
(* getModels requests and sends initial_state and model_status frames.     *)
(* The server's code is not part of the sources read here; what it does is *)
(* taken from the description of the push channel.                         *)
(***************************************************************************)
EXTENDS Integers, Sequences, FiniteSets, TLC

Null == "null"

\* ---- bounds of the model ------------------------------------------------
\* Longest models list a REST response carries.
MaxModels == 2

\* Most generate requests one run issues.
MaxRequests == 3

\* Most WebSocket objects one run constructs.
MaxSockets == 3

\* Bounds on the inputs: the model ids the server lists, and one it never
\* lists (a push for it is an update for an unknown id).
ModelIds == {"m1", "m2"}
UnknownId == "m3"

\* type ModelState
ModelState ==
    {"not_downloaded", "downloading", "downloaded", "loading", "ready", "error"}

\* DownloadProgress payloads: "p1" is what a REST record carries, "p2" what a
\* push carries, so that a retained value and a replaced one differ.
RestProgress == {Null, "p1"}
PushProgress == {Null, "p2"}
\* error strings, likewise.
RestError == {Null, "e1"}
PushError == {Null, "e2"}

\* interface Model, as GET /api/models returns it.  setModels stores the
\* progress and error of a record without reading them, so the records drawn
\* here carry a progress only while downloading and an error only in state
\* error; each may also be null there.
RestModel ==
    {m \in [id : ModelIds, state : ModelState,
            progress : RestProgress, error : RestError] :
        /\ m.progress # Null => m.state = "downloading"
        /\ m.error # Null => m.state = "error"}

\* The models arrays of a getModels() response.
Snapshots ==
    UNION {[1..n -> RestModel] : n \in 0..MaxModels}

\* interface ModelStatusMessage, as the arguments of updateModelStatus.
Updates ==
    [id : ModelIds \cup {UnknownId}, state : ModelState,
     progress : PushProgress, error : PushError]

VARIABLES
    models,            \* AppState.models
    selectedModelId,   \* AppState.selectedModelId
    lastOp,            \* history: the handler that ran last, and its model id
                       \* (for setModels: the currentSelected it read)
    lastSnapshotIds,   \* history: the ids of the last getModels() response applied
    isGenerating,      \* AppState.isGenerating
    generationError,   \* AppState.generationError
    generatedImages,   \* AppState.generatedImages (the id of the request of each)
    currentView,       \* AppState.currentView
    currentPrompt,     \* AppState.currentPrompt
    renderedIsGenerating, \* the isGenerating the last render of the page read,
                       \* which the handleGenerate closure of that render tests
    requests,          \* history: every generate request issued, in order
    mountedRef,        \* useWebSocket: mountedRef.current
    effectActive,      \* useWebSocket: the mount effect has run and its
                       \* cleanup has not (the owner is active)
    wsRef,             \* useWebSocket: wsRef.current, a socket or NoSocket
    reconnectTimeoutRef, \* useWebSocket: reconnectTimeoutRef.current, the
                       \* socket whose close set the timer, or NoSocket
    isConnected,       \* useWebSocket: isConnected
    connectionError,   \* useWebSocket: connectionError
    options,           \* useWebSocket: the callbacks of the owner's last render
    callbackRefs,      \* useWebSocket: onMessageRef / onConnectRef /
                       \* onDisconnectRef .current
    urlValid,          \* whether new WebSocket(url) constructs (or throws)
    sockets,           \* every WebSocket constructed, in order
    lastEvent,         \* history: the hook function or socket handler that
                       \* ran last
    serverState,       \* the state of model m1 at the server
    responses,         \* the getModels() responses in flight: the state of
                       \* m1 each reports
    stream             \* the frames the server has sent that are in flight:
                       \* the socket each was sent to, and the frame

registryVars == <<models, selectedModelId, lastOp, lastSnapshotIds>>
generationVars == <<isGenerating, generationError, generatedImages, currentView,
                    currentPrompt, renderedIsGenerating, requests>>
sessionVars == <<mountedRef, effectActive, wsRef, reconnectTimeoutRef,
                 isConnected, connectionError, options, callbackRefs,
                 urlValid, sockets, lastEvent>>
syncVars == <<serverState, responses, stream>>
vars == <<models, selectedModelId, lastOp, lastSnapshotIds,
          isGenerating, generationError, generatedImages, currentView,
          currentPrompt, renderedIsGenerating, requests,
          mountedRef, effectActive, wsRef, reconnectTimeoutRef,
          isConnected, connectionError, options, callbackRefs,
          urlValid, sockets, lastEvent,
          serverState, responses, stream>>

\* ---- helpers ------------------------------------------------------------
\* a ?? b
Coalesce(a, b) == IF a # Null THEN a ELSE b

\* models.find((m) => m.state === st)?.id, Null when there is none
FindByState(ms, st) ==
    IF \E i \in DOMAIN ms : ms[i].state = st
    THEN ms[CHOOSE i \in DOMAIN ms :
                /\ ms[i].state = st
                /\ \A j \in DOMAIN ms : ms[j].state = st => i <= j].id
    ELSE Null

\* The ids of a models array, in order and as a set.
IdSeq(ms) == [i \in DOMAIN ms |-> ms[i].id]
Ids(ms) == {ms[i].id : i \in DOMAIN ms}

\* models[0]?.id
FirstId(ms) == IF Len(ms) > 0 THEN ms[1].id ELSE Null

\* The rank table of the state machine (rank of a non-error state).
rank(st) ==
    CASE st = "not_downloaded" -> 0
      [] st = "downloading" -> 1
      [] st = "downloaded" -> 2
      [] st = "loading" -> 3
      [] st = "ready" -> 4

\* ---- the store's handlers ----------------------------------------------
\* Variant of setModelsList: local records absent from the response are kept,
\* after the incoming ones.
setModelsListKeepAbsent(current, incoming) ==
    incoming \o SelectSeq(current, LAMBDA m : m.id \notin Ids(incoming))

\* Variant of setModelsList: the response is appended to the current list.
setModelsListAppend(current, incoming) == current \o incoming

\* setModels: the models field of the new state.
setModelsList(current, incoming) == incoming

\* Variant of setModelsSelection: with nothing selected, the first record is
\* taken whatever the states.
setModelsSelectionFirst(currentSelected, incoming) ==
    IF currentSelected # Null THEN currentSelected ELSE FirstId(incoming)

\* Variant of setModelsSelection: every response selects anew by priority.
setModelsSelectionReselect(currentSelected, incoming) ==
    IF FindByState(incoming, "ready") # Null THEN FindByState(incoming, "ready")
    ELSE IF FindByState(incoming, "downloaded") # Null
         THEN FindByState(incoming, "downloaded")
    ELSE FirstId(incoming)

\* setModels: the selectedModelId field of the new state
\* (currentSelected || readyModel?.id || downloadedModel?.id || models[0]?.id || null).
setModelsSelection(currentSelected, incoming) ==
    IF currentSelected # Null THEN currentSelected
    ELSE IF FindByState(incoming, "ready") # Null THEN FindByState(incoming, "ready")
    ELSE IF FindByState(incoming, "downloaded") # Null
         THEN FindByState(incoming, "downloaded")
    ELSE FirstId(incoming)

\* Variant of updatedModel: the state is taken only from an error update, out
\* of an error, or when its rank is not below the record's.
updatedModelByRank(m, state, progress, error) ==
    [m EXCEPT !.state = IF \/ state = "error"
                           \/ m.state = "error"
                           \/ rank(state) >= rank(m.state)
                        THEN state ELSE m.state,
              !.progress = Coalesce(progress, m.progress),
              !.error = Coalesce(error, m.error)]

\* Variant of updatedModel: "progress ?? null", an absent progress clears.
updatedModelClearsProgress(m, state, progress, error) ==
    [m EXCEPT !.state = state,
              !.progress = progress,
              !.error = Coalesce(error, m.error)]

\* Variant of updatedModel: an absent error keeps the old message only while
\* the record (before the update) is in state error.
updatedModelStaleErrorCheck(m, state, progress, error) ==
    [m EXCEPT !.state = state,
              !.progress = Coalesce(progress, m.progress),
              !.error = Coalesce(error, IF m.state = "error" THEN m.error ELSE Null)]

\* Variant of updatedModel: a record in state error leaves it only for a state
\* of rank downloading or above.
updatedModelStickyError(m, state, progress, error) ==
    [m EXCEPT !.state = IF m.state = "error" /\ state = "not_downloaded"
                        THEN m.state ELSE state,
              !.progress = Coalesce(progress, m.progress),
              !.error = Coalesce(error, m.error)]

\* Variant of updatedModel: "m.error ?? error", the first message is kept.
updatedModelKeepsError(m, state, progress, error) ==
    [m EXCEPT !.state = state,
              !.progress = Coalesce(progress, m.progress),
              !.error = Coalesce(m.error, error)]

\* updateModelStatus: the record that replaces m when m.id === modelId.
updatedModel(m, state, progress, error) ==
    [m EXCEPT !.state = state,
              !.progress = Coalesce(progress, m.progress),
              !.error = Coalesce(error, m.error)]

\* Variant of updateModelStatus: an update for an id the list does not hold
\* adds a record for it.
updateModelStatusUpsert(ms, modelId, state, progress, error) ==
    IF modelId \in Ids(ms)
    THEN [i \in DOMAIN ms |->
            IF ms[i].id = modelId
            THEN updatedModel(ms[i], state, progress, error)
            ELSE ms[i]]
    ELSE Append(ms, [id |-> modelId, state |-> state,
                     progress |-> progress, error |-> error])

\* Variant of updateModelStatus: the map does not test the id.
updateModelStatusAll(ms, modelId, state, progress, error) ==
    [i \in DOMAIN ms |-> updatedModel(ms[i], state, progress, error)]

\* updateModelStatus: the models field of the new state.
updateModelStatus(ms, modelId, state, progress, error) ==
    [i \in DOMAIN ms |->
        IF ms[i].id = modelId
        THEN updatedModel(ms[i], state, progress, error)
        ELSE ms[i]]

\* ---- actions ------------------------------------------------------------
\* The generation fields of the initial state; nothing is rendered or
\* requested yet.
InitGeneration ==
    /\ isGenerating = FALSE
    /\ generationError = Null
    /\ generatedImages = <<>>
    /\ currentView = "init"
    /\ currentPrompt = ""
    /\ renderedIsGenerating = FALSE
    /\ requests = <<>>

\* wsRef.current === null, and reconnectTimeoutRef.current === null.
NoSocket == 0

\* The versions of the callbacks (onMessage, onConnect, onDisconnect) an
\* owner passes in options.
CallbackVersions == {"v1", "v2"}

\* useWebSocket before its mount effect has run: the useRef / useState
\* initial values (urlValid is left to the specification).
InitSession ==
    /\ mountedRef = TRUE
    /\ effectActive = FALSE
    /\ wsRef = NoSocket
    /\ reconnectTimeoutRef = NoSocket
    /\ isConnected = FALSE
    /\ connectionError = Null
    /\ options = "v1"
    /\ callbackRefs = "v1"
    /\ sockets = <<>>
    /\ lastEvent = [kind |-> "init", socket |-> NoSocket, info |-> Null]

\* The server lists one model, m1, which is downloaded and not loaded; no
\* request and no frame is in flight.
InitSync ==
    /\ serverState = "downloaded"
    /\ responses = {}
    /\ stream = <<>>

Init ==
    /\ models = <<>>
    /\ selectedModelId = Null
    /\ lastOp = [kind |-> "init", id |-> Null]
    /\ lastSnapshotIds = <<>>
    /\ InitGeneration
    /\ InitSession
    /\ urlValid = TRUE
    /\ InitSync

\* fetchModels, the await resolved: get().setModels(models).
FetchModelsOk(snapshot) ==
    /\ models' = setModelsList(models, snapshot)
    /\ selectedModelId' = setModelsSelection(selectedModelId, snapshot)
    /\ lastOp' = [kind |-> "setModels", id |-> selectedModelId]
    /\ lastSnapshotIds' = IdSeq(snapshot)
    /\ UNCHANGED generationVars
    /\ UNCHANGED sessionVars
    /\ UNCHANGED syncVars

\* Variant of modelsAfterFetchFailure: the list is emptied.
modelsAfterFetchFailureClears(ms) == <<>>

\* fetchModels, the catch block: console.error, and no call of set.
modelsAfterFetchFailure(ms) == ms

\* fetchModels, the await rejected (fetch rejected, the response was not ok,
\* or its body was no JSON).
FetchModelsFail ==
    /\ models' = modelsAfterFetchFailure(models)
    /\ lastOp' = [kind |-> "fetchModelsFailed", id |-> Null]
    /\ UNCHANGED <<selectedModelId, lastSnapshotIds>>
    /\ UNCHANGED generationVars
    /\ UNCHANGED sessionVars
    /\ UNCHANGED syncVars

\* handleWebSocketMessage, case "model_status".
ModelStatus(u) ==
    /\ models' = updateModelStatus(models, u.id, u.state, u.progress, u.error)
    /\ lastOp' = [kind |-> "model_status", id |-> u.id]
    /\ UNCHANGED <<selectedModelId, lastSnapshotIds>>
    /\ UNCHANGED generationVars
    /\ UNCHANGED sessionVars
    /\ UNCHANGED syncVars

\* downloadModel / loadModel, the await rejected:
\* get().updateModelStatus(modelId, "error", undefined, String(err)).
RestCallFail(id, err) ==
    /\ models' = updateModelStatus(models, id, "error", Null, err)
    /\ lastOp' = [kind |-> "restFailed", id |-> id]
    /\ UNCHANGED <<selectedModelId, lastSnapshotIds>>
    /\ UNCHANGED generationVars
    /\ UNCHANGED sessionVars
    /\ UNCHANGED syncVars

\* setSelectedModel, from the model picker of GeneratePage (ready models only).
SetSelectedModel(id) ==
    /\ \E i \in DOMAIN models : models[i].id = id /\ models[i].state = "ready"
    /\ selectedModelId' = id
    /\ lastOp' = [kind |-> "setSelectedModel", id |-> id]
    /\ UNCHANGED <<models, lastSnapshotIds>>
    /\ UNCHANGED generationVars
    /\ UNCHANGED sessionVars
    /\ UNCHANGED syncVars

Next ==
    \/ \E snapshot \in Snapshots : FetchModelsOk(snapshot)
    \/ FetchModelsFail
    \/ \E u \in Updates : ModelStatus(u)
    \/ \E id \in ModelIds, err \in PushError \ {Null} : RestCallFail(id, err)
    \/ \E id \in ModelIds : SetSelectedModel(id)

Spec == Init /\ [][Next]_vars

\* The store with no caller of setSelectedModel: responses and pushes only.
NextDefaultSelection ==
    \/ \E snapshot \in Snapshots : FetchModelsOk(snapshot)
    \/ FetchModelsFail
    \/ \E u \in Updates : ModelStatus(u)
    \/ \E id \in ModelIds, err \in PushError \ {Null} : RestCallFail(id, err)

SpecDefaultSelection == Init /\ [][NextDefaultSelection]_vars

\* The store right after the model picker selected PickedId: the list is a
\* getModels() response that lists PickedId as ready, and from there on only
\* responses and pushes arrive.
PickedId == "m1"

InitAfterPick ==
    \E snapshot \in Snapshots :
        /\ \E i \in DOMAIN snapshot :
              snapshot[i].id = PickedId /\ snapshot[i].state = "ready"
        /\ models = snapshot
        /\ selectedModelId = PickedId
        /\ lastOp = [kind |-> "setSelectedModel", id |-> PickedId]
        /\ lastSnapshotIds = IdSeq(snapshot)
        /\ isGenerating = FALSE
        /\ generationError = Null
        /\ generatedImages = <<>>
        /\ currentView = "generate"
        /\ currentPrompt = ""
        /\ renderedIsGenerating = FALSE
        /\ requests = <<>>
        /\ InitSession
        /\ urlValid = TRUE
        /\ InitSync

SpecAfterPick == InitAfterPick /\ [][NextDefaultSelection]_vars

\* ---- generation: GeneratePage.handleGenerate and the store fields ---------
\* Inputs: the prompts typed (empty, blank, a text), the generation modes,
\* and what a rejected generate call throws (an Error with a message, or a
\* value that is no Error).
Prompts == {"", " ", "a"}
GenerationModes == {"txt2img", "img2img"}
GenerateFailures ==
    {[isError |-> TRUE, message |-> "boom"], [isError |-> FALSE, message |-> Null]}

\* The getModels() responses of these runs: none, one model loaded or not.
GenerateSnapshots ==
    {<<>>,
     <<[id |-> "m1", state |-> "downloaded", progress |-> Null, error |-> Null]>>,
     <<[id |-> "m1", state |-> "ready", progress |-> Null, error |-> Null]>>}

\* The id of the n-th generate request; the image it returns carries it.
RequestId(n) == "r" \o ToString(n)

\* The requests in flight: issued, and neither resolved nor rejected.
Pending(reqs) == {i \in DOMAIN reqs : reqs[i].status = "pending"}

\* currentPrompt.trim()
trim(prompt) == IF prompt = " " THEN "" ELSE prompt

\* Variant of handleGenerateProceeds: the test of isGenerating is left out.
handleGenerateProceedsUnguarded(prompt, selected, generating, mode, hasReference) ==
    /\ ~(trim(prompt) = "" \/ selected = Null)
    /\ ~(mode = "img2img" /\ ~hasReference)

\* handleGenerate: neither early return is taken.
handleGenerateProceeds(prompt, selected, generating, mode, hasReference) ==
    /\ ~(trim(prompt) = "" \/ selected = Null \/ generating)
    /\ ~(mode = "img2img" /\ ~hasReference)

\* handleGenerate, catch: err instanceof Error ? err.message : "Generation failed"
caughtMessage(isError, message) ==
    IF isError THEN message ELSE "Generation failed"

\* Variant of isGeneratingAfterSettle: setGenerating(false) closes the try
\* block only, so that a rejected call leaves the flag as it was.
isGeneratingAfterSettleTryOnly(generating, outcome) ==
    IF outcome = "ok" THEN FALSE ELSE generating

\* handleGenerate, finally: setGenerating(false), after either outcome.
isGeneratingAfterSettle(generating, outcome) == FALSE

\* Variant of addGeneratedImage: the image is put last.
addGeneratedImageAppend(images, image) == Append(images, image)

\* addGeneratedImage: [image, ...state.generatedImages]
addGeneratedImage(images, image) == <<image>> \o images

\* Variant of isGeneratingAfterSetCurrentView: leaving for the init view
\* resets the flag.
isGeneratingAfterSetCurrentViewCancels(generating, view) ==
    IF view = "init" THEN FALSE ELSE generating

\* setCurrentView: set({ currentView: view }) leaves isGenerating as it is.
isGeneratingAfterSetCurrentView(generating, view) == generating

\* The re-render a store update schedules has run: the closures of the page
\* hold the store's isGenerating.  The update is a synchronous one
\* (useStore subscribes through useSyncExternalStore), flushed before the
\* browser dispatches the next input event; the events below wait for it.
RenderFlushed == renderedIsGenerating = isGenerating

\* The re-render after a change of isGenerating: handleGenerate is made anew
\* (isGenerating is in its dependency list).
Render ==
    /\ renderedIsGenerating # isGenerating
    /\ renderedIsGenerating' = isGenerating
    /\ UNCHANGED <<isGenerating, generationError, generatedImages, currentView,
                   currentPrompt, requests>>
    /\ UNCHANGED registryVars
    /\ UNCHANGED sessionVars
    /\ UNCHANGED syncVars

\* InitPage, "Continue" (shown when a model is ready): setCurrentView("generate").
Continue ==
    /\ currentView = "init"
    /\ RenderFlushed
    /\ \E i \in DOMAIN models : models[i].state = "ready"
    /\ currentView' = "generate"
    /\ isGenerating' = isGeneratingAfterSetCurrentView(isGenerating, "generate")
    /\ lastOp' = [kind |-> "continue", id |-> Null]
    /\ UNCHANGED <<generationError, generatedImages, currentPrompt,
                   renderedIsGenerating, requests>>
    /\ UNCHANGED <<models, selectedModelId, lastSnapshotIds>>
    /\ UNCHANGED sessionVars
    /\ UNCHANGED syncVars

\* GeneratePage, "Back to Setup": setCurrentView("init").  The requests in
\* flight are marked as left behind (history only).
Back ==
    /\ currentView = "generate"
    /\ RenderFlushed
    /\ currentView' = "init"
    /\ isGenerating' = isGeneratingAfterSetCurrentView(isGenerating, "init")
    /\ requests' = [i \in DOMAIN requests |->
                        IF requests[i].status = "pending"
                        THEN [requests[i] EXCEPT !.away = TRUE]
                        ELSE requests[i]]
    /\ lastOp' = [kind |-> "back", id |-> Null]
    /\ UNCHANGED <<generationError, generatedImages, currentPrompt,
                   renderedIsGenerating>>
    /\ UNCHANGED <<models, selectedModelId, lastSnapshotIds>>
    /\ UNCHANGED sessionVars
    /\ UNCHANGED syncVars

\* GeneratePage, the prompt textarea: setCurrentPrompt(e.target.value).
SetCurrentPrompt(prompt) ==
    /\ currentView = "generate"
    /\ RenderFlushed
    /\ currentPrompt' = prompt
    /\ lastOp' = [kind |-> "setCurrentPrompt", id |-> Null]
    /\ UNCHANGED <<isGenerating, generationError, generatedImages, currentView,
                   renderedIsGenerating, requests>>
    /\ UNCHANGED <<models, selectedModelId, lastSnapshotIds>>
    /\ UNCHANGED sessionVars
    /\ UNCHANGED syncVars

\* handleGenerate up to its first await (the Generate button, or Cmd/Ctrl +
\* Enter): the early returns, then setGenerating(true),
\* setGenerationError(null) and the generate call.
HandleGenerate(mode, hasReference) ==
    /\ currentView = "generate"
    /\ RenderFlushed
    /\ IF handleGenerateProceeds(currentPrompt, selectedModelId,
                                 renderedIsGenerating, mode, hasReference)
       THEN /\ Len(requests) < MaxRequests
            /\ isGenerating' = TRUE
            /\ generationError' = Null
            /\ requests' = Append(requests,
                    [status |-> "pending", away |-> FALSE,
                     isError |-> FALSE, message |-> Null])
            /\ lastOp' = [kind |-> "handleGenerate",
                          id |-> RequestId(Len(requests) + 1)]
       ELSE /\ lastOp' = [kind |-> "handleGenerateReturned", id |-> Null]
            /\ UNCHANGED <<isGenerating, generationError, requests>>
    /\ UNCHANGED <<generatedImages, currentView, currentPrompt,
                   renderedIsGenerating>>
    /\ UNCHANGED <<models, selectedModelId, lastSnapshotIds>>
    /\ UNCHANGED sessionVars
    /\ UNCHANGED syncVars

\* handleGenerate, the generate call resolved: addGeneratedImage(result),
\* then finally.
GenerateOk(i) ==
    /\ i \in Pending(requests)
    /\ generatedImages' = addGeneratedImage(generatedImages, RequestId(i))
    /\ isGenerating' = isGeneratingAfterSettle(isGenerating, "ok")
    /\ requests' = [requests EXCEPT ![i].status = "ok"]
    /\ lastOp' = [kind |-> "generateOk", id |-> RequestId(i)]
    /\ UNCHANGED <<generationError, currentView, currentPrompt,
                   renderedIsGenerating>>
    /\ UNCHANGED <<models, selectedModelId, lastSnapshotIds>>
    /\ UNCHANGED sessionVars
    /\ UNCHANGED syncVars

\* handleGenerate, the generate call rejected: catch, then finally.
GenerateFail(i, err) ==
    /\ i \in Pending(requests)
    /\ generationError' = caughtMessage(err.isError, err.message)
    /\ isGenerating' = isGeneratingAfterSettle(isGenerating, "failed")
    /\ requests' = [requests EXCEPT ![i].status = "failed",
                                    ![i].isError = err.isError,
                                    ![i].message = err.message]
    /\ lastOp' = [kind |-> "generateFail", id |-> RequestId(i)]
    /\ UNCHANGED <<generatedImages, currentView, currentPrompt,
                   renderedIsGenerating>>
    /\ UNCHANGED <<models, selectedModelId, lastSnapshotIds>>
    /\ UNCHANGED sessionVars
    /\ UNCHANGED syncVars

NextGenerate ==
    \/ \E snapshot \in GenerateSnapshots : FetchModelsOk(snapshot)
    \/ Continue
    \/ Back
    \/ \E prompt \in Prompts : SetCurrentPrompt(prompt)
    \/ \E mode \in GenerationModes, hasReference \in BOOLEAN :
            HandleGenerate(mode, hasReference)
    \/ \E i \in 1..MaxRequests : GenerateOk(i)
    \/ \E i \in 1..MaxRequests, err \in GenerateFailures : GenerateFail(i, err)
    \/ Render

SpecGenerate == Init /\ [][NextGenerate]_vars

\* ---- session: the useWebSocket hook and its WebSocket objects -----------
\* WebSocket.readyState
ReadyStates == {"CONNECTING", "OPEN", "CLOSING", "CLOSED"}

\* The code of a normal closure, which onclose tests and disconnect passes.
NormalClosure == 1000

\* The codes of the close events: a normal closure, and the abnormal one a
\* failed or lost connection reports (together with an error event).
CloseCodes == {NormalClosure, 1006}

\* The frames a socket receives: text that is no JSON, and JSON messages of
\* a type that triggers fetchModels, that updates a record, that is known
\* and ignored, and that is not known.
SessionUpdates ==
    {u \in Updates : u.id = "m1" /\ u.state \in {"downloading", "ready"}
                     /\ u.error = Null}
NoUpdate == [id |-> Null, state |-> Null, progress |-> Null, error |-> Null]
Frames ==
    {[json |-> FALSE, type |-> Null, u |-> NoUpdate]}
    \cup {[json |-> TRUE, type |-> t, u |-> NoUpdate] :
            t \in {"initial_state", "heartbeat", "pong", "generation_start",
                   "generation_complete", "generation_error", "unknown"}}
    \cup {[json |-> TRUE, type |-> "model_status", u |-> u] : u \in SessionUpdates}

\* A WebSocket just constructed.  cause and by tell which call of connect
\* constructed it (the mount effect, the returned reconnect, or the timer a
\* socket's close set); timer is the reconnect timer its own close sets;
\* code is the code of its close event (0 before).
NewSocket(cause, by) ==
    [readyState |-> "CONNECTING", opened |-> FALSE, cause |-> cause, by |-> by,
     timer |-> "none", code |-> 0]

\* wsRef.current?.readyState
RefState(ref, socks) == IF ref = NoSocket THEN "none" ELSE socks[ref].readyState

\* The sockets that are connecting or open.
Live(socks) == {i \in DOMAIN socks : socks[i].readyState \in {"CONNECTING", "OPEN"}}

\* Variant of connectProceeds: the readyState of wsRef.current is not tested.
connectProceedsUnguarded(mounted, refState) == mounted

\* connect: neither early return is taken.
connectProceeds(mounted, refState) ==
    /\ mounted
    /\ ~(refState = "OPEN" \/ refState = "CONNECTING")

\* connect: wsRef.current, the sockets and connectionError it leaves; outcome
\* tells the early return, the construction and the catch apart.
connect(mounted, ref, socks, error, valid, cause, by) ==
    IF ~connectProceeds(mounted, RefState(ref, socks))
    THEN [wsRef |-> ref, sockets |-> socks, connectionError |-> error,
          outcome |-> "returned"]
    ELSE IF valid
    THEN [wsRef |-> Len(socks) + 1,
          sockets |-> Append(socks, NewSocket(cause, by)),
          connectionError |-> error, outcome |-> "created"]
    ELSE [wsRef |-> ref, sockets |-> socks,
          connectionError |-> "Failed to create WebSocket connection",
          outcome |-> "threw"]

\* The run stays within MaxSockets: connect may be called when it constructs
\* nothing or when a socket is left to construct.
ConnectWithinBound(mounted) ==
    (connectProceeds(mounted, RefState(wsRef, sockets)) /\ urlValid)
    => Len(sockets) < MaxSockets

\* Variant of oncloseSchedules: the code is not tested.
oncloseSchedulesAnyCode(code, mounted) == mounted

\* Variant of oncloseSchedules: no close sets a timer.
oncloseSchedulesNever(code, mounted) == FALSE

\* ws.onclose: event.code !== 1000 && mountedRef.current
oncloseSchedules(code, mounted) == code # NormalClosure /\ mounted

\* disconnect: clearTimeout(reconnectTimeoutRef.current), which cancels the
\* timer if it is still pending.
disconnectTimers(timerRef, socks) ==
    IF timerRef # NoSocket /\ socks[timerRef].timer = "pending"
    THEN [socks EXCEPT ![timerRef].timer = "cleared"]
    ELSE socks

\* disconnect: wsRef.current.close(1000, ...), which starts the closing of a
\* socket that is connecting or open.
disconnectClose(ref, socks) ==
    IF ref # NoSocket /\ socks[ref].readyState \in {"CONNECTING", "OPEN"}
    THEN [socks EXCEPT ![ref].readyState = "CLOSING"]
    ELSE socks

\* Variant of sendDelivers: a socket that is still connecting is written to.
sendDeliversWhileConnecting(refState) == refState \in {"OPEN", "CONNECTING"}

\* send: wsRef.current?.readyState === WebSocket.OPEN
sendDelivers(refState) == refState = "OPEN"

\* Variant of onmessageDelivers: the text is handed over unparsed.
onmessageDeliversUnparsed(frame) == TRUE

\* ws.onmessage: JSON.parse(event.data) does not throw, so that
\* onMessageRef.current is called.
onmessageDelivers(frame) == frame.json

\* handleWebSocketMessage after ws.onmessage: the models list a frame leaves.
modelsAfterFrame(ms, frame) ==
    IF onmessageDelivers(frame) /\ frame.type = "model_status"
    THEN updateModelStatus(ms, frame.u.id, frame.u.state,
                           frame.u.progress, frame.u.error)
    ELSE ms

\* Variant of isGeneratingAfterFrame: the push that ends a generation resets
\* the guard.
isGeneratingAfterFrameSettles(generating, frame) ==
    IF frame.json /\ frame.type \in {"generation_complete", "generation_error"}
    THEN FALSE
    ELSE generating

\* handleWebSocketMessage after ws.onmessage: isGenerating.  No case of the
\* switch calls setGenerating (generation_*: "Handled elsewhere").
isGeneratingAfterFrame(generating, frame) == generating

\* Variant of refAfterSwap: the ref keeps the callback of the first render.
refAfterSwapKeeps(current, callback) == current

\* The effects that follow a render with new callbacks:
\* onMessageRef.current = options.onMessage (and the two others).
refAfterSwap(current, callback) == callback

\* The mount effect: mountedRef.current = true; connect().
Mount ==
    /\ ~effectActive
    /\ ConnectWithinBound(TRUE)
    /\ LET r == connect(TRUE, wsRef, sockets, connectionError, urlValid,
                        "mount", NoSocket)
       IN  /\ wsRef' = r.wsRef
           /\ sockets' = r.sockets
           /\ connectionError' = r.connectionError
           /\ lastEvent' = [kind |-> "mount", socket |-> r.wsRef,
                            info |-> r.outcome]
    /\ mountedRef' = TRUE
    /\ effectActive' = TRUE
    /\ UNCHANGED <<reconnectTimeoutRef, isConnected, options, callbackRefs,
                   urlValid>>
    /\ UNCHANGED registryVars
    /\ UNCHANGED generationVars
    /\ UNCHANGED syncVars

\* The cleanup of the mount effect (unmount, or before the effect runs
\* again): mountedRef.current = false; disconnect().
Unmount ==
    /\ effectActive
    /\ mountedRef' = FALSE
    /\ effectActive' = FALSE
    /\ sockets' = disconnectClose(wsRef,
                        disconnectTimers(reconnectTimeoutRef, sockets))
    /\ reconnectTimeoutRef' = NoSocket
    /\ wsRef' = NoSocket
    /\ lastEvent' = [kind |-> "unmount", socket |-> wsRef, info |-> Null]
    /\ UNCHANGED <<isConnected, connectionError, options, callbackRefs, urlValid>>
    /\ UNCHANGED registryVars
    /\ UNCHANGED generationVars
    /\ UNCHANGED syncVars

\* The active owner calls the connect the hook returns as reconnect.
Reconnect ==
    /\ effectActive
    /\ ConnectWithinBound(mountedRef)
    /\ LET r == connect(mountedRef, wsRef, sockets, connectionError, urlValid,
                        "reconnect", NoSocket)
       IN  /\ wsRef' = r.wsRef
           /\ sockets' = r.sockets
           /\ connectionError' = r.connectionError
           /\ lastEvent' = [kind |-> "reconnect", socket |-> r.wsRef,
                            info |-> r.outcome]
    /\ UNCHANGED <<mountedRef, effectActive, reconnectTimeoutRef, isConnected,
                   options, callbackRefs, urlValid>>
    /\ UNCHANGED registryVars
    /\ UNCHANGED generationVars
    /\ UNCHANGED syncVars

\* The owner calls send.
Send ==
    /\ IF sendDelivers(RefState(wsRef, sockets))
       THEN lastEvent' = [kind |-> "send", socket |-> wsRef,
                          info |-> "delivered"]
       ELSE lastEvent' = [kind |-> "send", socket |-> wsRef,
                          info |-> "dropped"]
    /\ UNCHANGED <<mountedRef, effectActive, wsRef, reconnectTimeoutRef,
                   isConnected, connectionError, options, callbackRefs,
                   urlValid, sockets>>
    /\ UNCHANGED registryVars
    /\ UNCHANGED generationVars
    /\ UNCHANGED syncVars

\* The connection of socket s is established: ws.onopen.
SocketOpen(s) ==
    /\ s \in DOMAIN sockets
    /\ sockets[s].readyState = "CONNECTING"
    /\ sockets' = [sockets EXCEPT ![s].readyState = "OPEN", ![s].opened = TRUE]
    /\ IF mountedRef
       THEN /\ isConnected' = TRUE
            /\ connectionError' = Null
            /\ lastEvent' = [kind |-> "onopen", socket |-> s,
                             info |-> callbackRefs]
       ELSE /\ UNCHANGED <<isConnected, connectionError>>
            /\ lastEvent' = [kind |-> "onopen", socket |-> s,
                             info |-> "ignored"]
    /\ UNCHANGED <<mountedRef, effectActive, wsRef, reconnectTimeoutRef,
                   options, callbackRefs, urlValid>>
    /\ UNCHANGED registryVars
    /\ UNCHANGED generationVars
    /\ UNCHANGED syncVars

\* The server starts the closing handshake of the open socket s: its
\* readyState is CLOSING until the close event.
ServerStartsClose(s) ==
    /\ s \in DOMAIN sockets
    /\ sockets[s].readyState = "OPEN"
    /\ sockets' = [sockets EXCEPT ![s].readyState = "CLOSING"]
    /\ lastEvent' = [kind |-> "closing", socket |-> s, info |-> Null]
    /\ UNCHANGED <<mountedRef, effectActive, wsRef, reconnectTimeoutRef,
                   isConnected, connectionError, options, callbackRefs,
                   urlValid>>
    /\ UNCHANGED registryVars
    /\ UNCHANGED generationVars
    /\ UNCHANGED syncVars

\* The connection of socket s is closed with the given code: ws.onerror
\* first when the connection failed or was lost (a code other than 1000),
\* then ws.onclose.  A socket that never opened cannot close normally.
SocketClose(s, code) ==
    /\ s \in DOMAIN sockets
    /\ sockets[s].readyState # "CLOSED"
    /\ ~sockets[s].opened => code # NormalClosure
    /\ sockets' = [sockets EXCEPT
                      ![s].readyState = "CLOSED",
                      ![s].code = code,
                      ![s].timer = IF oncloseSchedules(code, mountedRef)
                                   THEN "pending" ELSE @]
    /\ connectionError' = IF code # NormalClosure
                          THEN "Failed to connect to server"
                          ELSE connectionError
    /\ IF mountedRef
       THEN /\ isConnected' = FALSE
            /\ wsRef' = NoSocket
            /\ lastEvent' = [kind |-> "onclose", socket |-> s,
                             info |-> callbackRefs]
       ELSE /\ UNCHANGED <<isConnected, wsRef>>
            /\ lastEvent' = [kind |-> "onclose", socket |-> s,
                             info |-> "ignored"]
    /\ reconnectTimeoutRef' = IF oncloseSchedules(code, mountedRef)
                              THEN s ELSE reconnectTimeoutRef
    /\ UNCHANGED <<mountedRef, effectActive, options, callbackRefs, urlValid>>
    /\ UNCHANGED registryVars
    /\ UNCHANGED generationVars
    /\ UNCHANGED syncVars

\* The reconnect timer the close of socket s set fires:
\* if (mountedRef.current) connect().
TimerFire(s) ==
    /\ s \in DOMAIN sockets
    /\ sockets[s].timer = "pending"
    /\ ConnectWithinBound(mountedRef)
    /\ LET r == connect(mountedRef, wsRef,
                        [sockets EXCEPT ![s].timer = "fired"],
                        connectionError, urlValid, "timer", s)
       IN  /\ wsRef' = r.wsRef
           /\ sockets' = r.sockets
           /\ connectionError' = r.connectionError
           /\ lastEvent' = [kind |-> "timer", socket |-> s, info |-> r.outcome]
    /\ UNCHANGED <<mountedRef, effectActive, reconnectTimeoutRef, isConnected,
                   options, callbackRefs, urlValid>>
    /\ UNCHANGED registryVars
    /\ UNCHANGED generationVars
    /\ UNCHANGED syncVars

\* The open socket s receives a frame: ws.onmessage, and through
\* onMessageRef.current handleWebSocketMessage.
OnMessage(s, frame) ==
    /\ s \in DOMAIN sockets
    /\ sockets[s].readyState = "OPEN"
    /\ models' = modelsAfterFrame(models, frame)
    /\ isGenerating' = isGeneratingAfterFrame(isGenerating, frame)
    /\ lastOp' = IF onmessageDelivers(frame)
                 THEN [kind |-> frame.type, id |-> frame.u.id]
                 ELSE lastOp
    /\ lastEvent' = [kind |-> "onmessage", socket |-> s,
                     info |-> IF onmessageDelivers(frame)
                              THEN callbackRefs ELSE "dropped"]
    /\ UNCHANGED <<selectedModelId, lastSnapshotIds>>
    /\ UNCHANGED <<mountedRef, effectActive, wsRef, reconnectTimeoutRef,
                   isConnected, connectionError, options, callbackRefs,
                   urlValid, sockets>>
    /\ UNCHANGED <<generationError, generatedImages, currentView,
                   currentPrompt, renderedIsGenerating, requests>>
    /\ UNCHANGED syncVars

\* The active owner renders with new callbacks, and the three ref effects
\* run.
SwapCallbacks(callback) ==
    /\ effectActive
    /\ callback # options
    /\ options' = callback
    /\ callbackRefs' = refAfterSwap(callbackRefs, callback)
    /\ lastEvent' = [kind |-> "swap", socket |-> NoSocket, info |-> callback]
    /\ UNCHANGED <<mountedRef, effectActive, wsRef, reconnectTimeoutRef,
                   isConnected, connectionError, urlValid, sockets>>
    /\ UNCHANGED registryVars
    /\ UNCHANGED generationVars
    /\ UNCHANGED syncVars

NextSession ==
    \/ Mount
    \/ Unmount
    \/ Reconnect
    \/ Send
    \/ \E s \in 1..MaxSockets : SocketOpen(s)
    \/ \E s \in 1..MaxSockets : ServerStartsClose(s)
    \/ \E s \in 1..MaxSockets, code \in CloseCodes : SocketClose(s, code)
    \/ \E s \in 1..MaxSockets : TimerFire(s)

\* The initial state, with a url that constructs or one that throws.
InitAnyUrl ==
    /\ models = <<>>
    /\ selectedModelId = Null
    /\ lastOp = [kind |-> "init", id |-> Null]
    /\ lastSnapshotIds = <<>>
    /\ InitGeneration
    /\ InitSession
    /\ urlValid \in BOOLEAN
    /\ InitSync

SpecSession == InitAnyUrl /\ [][NextSession]_vars

\* The hook with the frames its sockets receive, the message dispatch of
\* App.tsx and the owner's renders with new callbacks.
NextDispatch ==
    \/ Mount
    \/ Unmount
    \/ \E s \in 1..MaxSockets : SocketOpen(s)
    \/ \E s \in 1..MaxSockets, code \in CloseCodes : SocketClose(s, code)
    \/ \E s \in 1..MaxSockets : TimerFire(s)
    \/ \E s \in 1..MaxSockets, frame \in Frames : OnMessage(s, frame)
    \/ \E callback \in CallbackVersions : SwapCallbacks(callback)
    \/ \E snapshot \in GenerateSnapshots : FetchModelsOk(snapshot)

SpecDispatch == Init /\ [][NextDispatch]_vars

\* The getModels() responses of the runs of SpecPage: those of
\* GenerateSnapshots, and one that lists two models.
PageSnapshots ==
    GenerateSnapshots
    \cup {<<[id |-> "m1", state |-> "ready", progress |-> Null, error |-> Null],
             [id |-> "m2", state |-> "downloaded", progress |-> Null,
              error |-> Null]>>}

\* GeneratePage in use while the socket of the hook delivers frames.
NextPage ==
    \/ \E snapshot \in PageSnapshots : FetchModelsOk(snapshot)
    \/ Continue
    \/ \E prompt \in Prompts : SetCurrentPrompt(prompt)
    \/ \E mode \in GenerationModes, hasReference \in BOOLEAN :
            HandleGenerate(mode, hasReference)
    \/ \E i \in 1..MaxRequests : GenerateOk(i)
    \/ Render
    \/ Mount
    \/ \E s \in 1..MaxSockets : SocketOpen(s)
    \/ \E s \in 1..MaxSockets, frame \in Frames : OnMessage(s, frame)

SpecPage == Init /\ [][NextPage]_vars

\* ---- App with the server: requests and frames in flight ----------------
\* The states model m1 goes through at the server while it is loaded.
ServerStates == {"downloaded", "loading", "ready"}
ServerNext(st) == IF st = "downloaded" THEN "loading" ELSE "ready"

\* The record of m1 in state st, without progress or error.
ServerRecord(st) ==
    [id |-> "m1", state |-> st, progress |-> Null, error |-> Null]

\* The models array of the getModels() response that reports m1 in state st.
ServerSnapshot(st) == <<ServerRecord(st)>>

\* The frames the server sends: initial_state to a socket it has accepted
\* (with the models it holds), and model_status after a change of state.
InitialStateFrame(st) ==
    [json |-> TRUE, type |-> "initial_state", u |-> ServerRecord(st)]
ModelStatusFrame(st) ==
    [json |-> TRUE, type |-> "model_status", u |-> ServerRecord(st)]

\* The sockets whose connection is open.
OpenSockets(socks) == {i \in DOMAIN socks : socks[i].readyState = "OPEN"}

\* fetchModels up to its await: the request is sent, and the server answers
\* it with the state it holds.
fetchModels(rs, server) == rs \cup {server}

\* Variant of responsesAfterFrame: initial_state only breaks.
responsesAfterFrameNoFetch(rs, frame, server) == rs

\* handleWebSocketMessage after ws.onmessage: the requests in flight.
\* case "initial_state": fetchModels().
responsesAfterFrame(rs, frame, server) ==
    IF onmessageDelivers(frame) /\ frame.type = "initial_state"
    THEN fetchModels(rs, server)
    ELSE rs

\* The effects of App's first commit: the mount effect of useWebSocket
\* (connect()), then the initial data fetch (fetchModels()).
AppMount ==
    /\ ~effectActive
    /\ ConnectWithinBound(TRUE)
    /\ LET r == connect(TRUE, wsRef, sockets, connectionError, urlValid,
                        "mount", NoSocket)
       IN  /\ wsRef' = r.wsRef
           /\ sockets' = r.sockets
           /\ connectionError' = r.connectionError
           /\ lastEvent' = [kind |-> "mount", socket |-> r.wsRef,
                            info |-> r.outcome]
    /\ mountedRef' = TRUE
    /\ effectActive' = TRUE
    /\ responses' = fetchModels(responses, serverState)
    /\ UNCHANGED <<reconnectTimeoutRef, isConnected, options, callbackRefs,
                   urlValid>>
    /\ UNCHANGED <<serverState, stream>>
    /\ UNCHANGED registryVars
    /\ UNCHANGED generationVars

\* The server has accepted socket s and sent it initial_state; ws.onopen
\* calls onConnectRef.current, which is handleConnect: fetchModels().
Connected(s) ==
    /\ s \in DOMAIN sockets
    /\ sockets[s].readyState = "CONNECTING"
    /\ sockets' = [sockets EXCEPT ![s].readyState = "OPEN", ![s].opened = TRUE]
    /\ stream' = Append(stream,
                        [to |-> s, frame |-> InitialStateFrame(serverState)])
    /\ IF mountedRef
       THEN /\ isConnected' = TRUE
            /\ connectionError' = Null
            /\ responses' = fetchModels(responses, serverState)
            /\ lastEvent' = [kind |-> "onopen", socket |-> s,
                             info |-> callbackRefs]
       ELSE /\ UNCHANGED <<isConnected, connectionError, responses>>
            /\ lastEvent' = [kind |-> "onopen", socket |-> s,
                             info |-> "ignored"]
    /\ UNCHANGED <<mountedRef, effectActive, wsRef, reconnectTimeoutRef,
                   options, callbackRefs, urlValid>>
    /\ UNCHANGED serverState
    /\ UNCHANGED registryVars
    /\ UNCHANGED generationVars

\* The state of m1 changes at the server, which sends model_status to the
\* socket it holds open.
ServerChange ==
    /\ serverState # "ready"
    /\ serverState' = ServerNext(serverState)
    /\ stream' = IF OpenSockets(sockets) = {}
                 THEN stream
                 ELSE Append(stream,
                        [to |-> CHOOSE i \in OpenSockets(sockets) : TRUE,
                         frame |-> ModelStatusFrame(ServerNext(serverState))])
    /\ UNCHANGED responses
    /\ UNCHANGED registryVars
    /\ UNCHANGED generationVars
    /\ UNCHANGED sessionVars

\* The first frame in flight arrives: ws.onmessage of its socket, and
\* through onMessageRef.current handleWebSocketMessage.  A frame for a
\* socket that is no longer open is lost.
Deliver ==
    /\ stream # <<>>
    /\ stream' = Tail(stream)
    /\ LET to == Head(stream).to
           frame == Head(stream).frame
       IN  IF sockets[to].readyState = "OPEN"
           THEN /\ models' = modelsAfterFrame(models, frame)
                /\ isGenerating' = isGeneratingAfterFrame(isGenerating, frame)
                /\ responses' = responsesAfterFrame(responses, frame,
                                                    serverState)
                /\ lastOp' = IF onmessageDelivers(frame)
                             THEN [kind |-> frame.type, id |-> frame.u.id]
                             ELSE lastOp
                /\ lastEvent' = [kind |-> "onmessage", socket |-> to,
                                 info |-> IF onmessageDelivers(frame)
                                          THEN callbackRefs ELSE "dropped"]
           ELSE UNCHANGED <<models, isGenerating, responses, lastOp,
                            lastEvent>>
    /\ UNCHANGED <<selectedModelId, lastSnapshotIds>>
    /\ UNCHANGED <<mountedRef, effectActive, wsRef, reconnectTimeoutRef,
                   isConnected, connectionError, options, callbackRefs,
                   urlValid, sockets>>
    /\ UNCHANGED <<generationError, generatedImages, currentView,
                   currentPrompt, renderedIsGenerating, requests>>
    /\ UNCHANGED serverState

\* fetchModels, the await resolved with the response that reports m1 in
\* state st: get().setModels(models).
Response(st) ==
    /\ st \in responses
    /\ responses' = responses \ {st}
    /\ models' = setModelsList(models, ServerSnapshot(st))
    /\ selectedModelId' = setModelsSelection(selectedModelId,
                                             ServerSnapshot(st))
    /\ lastOp' = [kind |-> "setModels", id |-> selectedModelId]
    /\ lastSnapshotIds' = IdSeq(ServerSnapshot(st))
    /\ UNCHANGED <<serverState, stream>>
    /\ UNCHANGED generationVars
    /\ UNCHANGED sessionVars

\* App, its socket and the server.
NextSync ==
    \/ AppMount
    \/ \E s \in 1..MaxSockets : Connected(s)
    \/ ServerChange
    \/ Deliver
    \/ \E st \in ServerStates : Response(st)
    \/ \E s \in 1..MaxSockets, code \in CloseCodes : SocketClose(s, code)
    \/ \E s \in 1..MaxSockets : TimerFire(s)

\* Every frame and every response in flight arrives, and a pending timer
\* fires.
SpecSync ==
    /\ Init
    /\ [][NextSync]_vars
    /\ WF_vars(Deliver)
    /\ \A st \in ServerStates : WF_vars(Response(st))
    /\ \A s \in 1..MaxSockets : WF_vars(TimerFire(s))

\* The same, with the timers of the browser: a pending timer fires.
SpecSessionLive ==
    /\ InitAnyUrl
    /\ [][NextSession]_vars
    /\ \A s \in 1..MaxSockets : WF_vars(TimerFire(s))

\* ---- properties ---------------------------------------------------------
\* The models list a model_status message u leaves, applied to the current one.
Pushed(ms, u) == updateModelStatus(ms, u.id, u.state, u.progress, u.error)

\* No two records of the list share an id.
NoDuplicateIds(ids) ==
    \A i, j \in DOMAIN ids : ids[i] = ids[j] => i = j

C3_RecoveryClearsError ==
    \A e \in Updates, d \in Updates : \A i \in DOMAIN models :
        (/\ e.state = "error"
         /\ d.state = "downloading"
         /\ d.error = Null
         /\ e.id = d.id
         /\ models[i].id = e.id)
        => /\ Pushed(Pushed(models, e), d)[i].state = "downloading"
           /\ Pushed(Pushed(models, e), d)[i].error = Null

\* C4 (as claimed): in every reachable registry, an update in state Error for
\* a known id leaves the record in state Error, with the update's message as
\* its error and no progress.
C4_ErrorReplacesWholesale ==
    \A u \in Updates : \A i \in DOMAIN models :
        (u.state = "error" /\ models[i].id = u.id)
        => /\ Pushed(models, u)[i].state = "error"
           /\ Pushed(models, u)[i].error = u.error
           /\ Pushed(models, u)[i].progress = Null

\* The records of id x in a list.
RecordsOf(ms, x) == {ms[i] : i \in {j \in DOMAIN ms : ms[j].id = x}}

\* C5 (as claimed): in every reachable registry, a getModels() response and a
\* model_status message about the same known id leave the same record for
\* that id in either order of delivery.
C5_SnapshotAndPushCommute ==
    \A s \in Snapshots, u \in Updates :
        (u.id \in Ids(models) /\ u.id \in Ids(s))
        => RecordsOf(Pushed(setModelsList(models, s), u), u.id)
             = RecordsOf(setModelsList(Pushed(models, u), s), u.id)

\* C6: in every reachable registry, applying any model_status message twice
\* in a row leaves the same list of records (state, progress and error of
\* each) as applying it once.
C6_PushIdempotent ==
    \A u \in Updates : Pushed(Pushed(models, u), u) = Pushed(models, u)

\* C6 witness: a push has been applied to a known id and changed its record:
\* the record holds the error message of a REST record in state error, the
\* state ready and the progress of a push, so that a second application of
\* that push meets a record the first one changed.
C6_Witness ==
    /\ lastOp.kind = "model_status"
    /\ \E i \in DOMAIN models :
          /\ models[i].id = lastOp.id
          /\ models[i].state = "ready"
          /\ models[i].progress = "p2"
          /\ models[i].error = "e1"

\* C7 (as claimed): in every reachable registry, whatever snapshot setModels
\* is given, every local record whose id the snapshot lacks is still in the
\* registry afterwards, unchanged.
C7_AbsentRecordsKept ==
    \A s \in Snapshots : \A i \in DOMAIN models :
        models[i].id \notin Ids(s)
        => \E j \in DOMAIN setModelsList(models, s) :
              setModelsList(models, s)[j] = models[i]

\* C7 (amended): setModels replaces the registry by the snapshot, so a local
\* record whose id the snapshot lacks is removed: no record of that id
\* remains.
C7_AbsentRecordsRemoved ==
    \A s \in Snapshots : \A i \in DOMAIN models :
        models[i].id \notin Ids(s)
        => models[i].id \notin Ids(setModelsList(models, s))

\* C7 witness: setModels has just run and the selected id, which was the id
\* of a record when it was selected, is no longer the id of any record.
C7_Witness ==
    /\ lastOp.kind = "setModels"
    /\ selectedModelId # Null
    /\ selectedModelId \notin Ids(models)
    /\ Len(models) > 0

\* C8: a model_status step for an id the registry does not hold changes
\* neither the list of records nor the selection.
C8_UnknownIdIgnored ==
    [][(lastOp'.kind = "model_status" /\ lastOp'.id \notin Ids(models))
        => (models' = models /\ selectedModelId' = selectedModelId)]_vars

\* C8 witness: a push for the id no response lists has been handled by a
\* registry of two records.
C8_Witness ==
    /\ lastOp = [kind |-> "model_status", id |-> UnknownId]
    /\ Len(models) = 2
    /\ models[1].id # models[2].id

C11_ProgressOnlyWhileDownloading ==
    \A i \in DOMAIN models :
        models[i].progress # Null => models[i].state = "downloading"

\* ---- C12 ----------------------------------------------------------------
\* C12 (as claimed): a record that an error update put in state error stays
\* in error under a later non-error update whose rank is below the rank the
\* record had before the error.
C12_StaleEchoKeepsError ==
    \A i \in DOMAIN models :
        models[i].state # "error"
        => \A e \in {x \in Updates : x.id = models[i].id /\ x.state = "error"} :
           \A u \in {x \in Updates : x.id = models[i].id /\ x.state # "error"} :
                rank(u.state) < rank(models[i].state)
                => Pushed(Pushed(models, e), u)[i].state = "error"

\* C12 (amended): every non-error update for the id of a record in state
\* error takes the record out of error, into the update's state, whatever
\* the rank of that state; the state the record had before the error is not
\* kept anywhere.
C12_AnyUpdateLeavesError ==
    \A i \in DOMAIN models :
        models[i].state = "error"
        => \A u \in Updates :
                (u.id = models[i].id /\ u.state # "error")
                => Pushed(models, u)[i].state = u.state

\* C12 witness: a push has left a record in the lowest-rank state,
\* not_downloaded, while it still holds the message of the REST record that
\* listed it in state error.
C12_Witness ==
    /\ lastOp.kind = "model_status"
    /\ \E i \in DOMAIN models :
          /\ models[i].id = lastOp.id
          /\ models[i].state = "not_downloaded"
          /\ models[i].error = "e1"

\* ---- C13 ----------------------------------------------------------------
\* The priority choice over a models list: the first ready record, else the
\* first downloaded record, else the first record; Null for an empty list.
FirstIndexIn(S) == CHOOSE i \in S : \A j \in S : i <= j

PriorityChoice(ms) ==
    LET ready == {i \in DOMAIN ms : ms[i].state = "ready"}
        downloaded == {i \in DOMAIN ms : ms[i].state = "downloaded"}
    IN  CASE ready # {} -> ms[FirstIndexIn(ready)].id
          [] ready = {} /\ downloaded # {} -> ms[FirstIndexIn(downloaded)].id
          [] ready = {} /\ downloaded = {} /\ ms # <<>> -> ms[1].id
          [] OTHER -> Null

\* C13: with no model selected, a getModels() response selects the priority
\* choice over its records: whatever response arrives next, and in the state
\* a response applied with nothing selected has left.
C13_SnapshotSelectsByPriority ==
    /\ selectedModelId = Null
        => \A s \in Snapshots :
              setModelsSelection(selectedModelId, s) = PriorityChoice(s)
    /\ (lastOp.kind = "setModels" /\ lastOp.id = Null)
        => selectedModelId = PriorityChoice(models)

\* C13 witness: a response applied with nothing selected listed a record
\* that is not ready before a ready one, and the ready one is selected.
C13_Witness ==
    /\ lastOp = [kind |-> "setModels", id |-> Null]
    /\ Len(models) = 2
    /\ models[1].state = "not_downloaded"
    /\ models[2].state = "ready"
    /\ models[2].id # models[1].id
    /\ selectedModelId = models[2].id

\* ---- C14 ----------------------------------------------------------------
\* C14: while no caller has selected a model (SpecDefaultSelection), the
\* selected id is the priority choice over the current list, also after a
\* push changed the state of a record.
C14_SelectionIsPriorityChoice ==
    selectedModelId = PriorityChoice(models)

\* ---- C15 ----------------------------------------------------------------
\* C15: after the picker selected PickedId (SpecAfterPick), every response
\* and every push leaves PickedId selected as long as the list holds a
\* record with that id.
C15_ExplicitSelectionKept ==
    PickedId \in Ids(models) => selectedModelId = PickedId

\* C15 witness: after a response or a push PickedId is still selected, its
\* record is no longer ready and the record of another model is.
C15_Witness ==
    /\ lastOp.kind \in {"setModels", "model_status"}
    /\ selectedModelId = PickedId
    /\ \E i, j \in DOMAIN models :
          /\ models[i].id = PickedId
          /\ models[i].state # "ready"
          /\ models[j].id # PickedId
          /\ models[j].state = "ready"

\* ---- C16 ----------------------------------------------------------------
\* C16: whenever the list is not empty, the selected id is the id of one of
\* its records.
C16_SelectedIdIsInRegistry ==
    Len(models) > 0 => selectedModelId \in Ids(models)

\* ---- C17 ----------------------------------------------------------------
\* C17: at most one generate request is in flight: a request is issued only
\* by an invocation of handleGenerate that finds the guard idle, and while a
\* request is pending no invocation, in either mode, gets past the early
\* returns.
C17_AtMostOneInFlight ==
    /\ Cardinality(Pending(requests)) <= 1
    /\ lastOp.kind = "handleGenerate" => Pending(requests) = {Len(requests)}
    /\ (Pending(requests) # {} /\ RenderFlushed)
        => \A mode \in GenerationModes, hasReference \in BOOLEAN :
              ~handleGenerateProceeds(currentPrompt, selectedModelId,
                                      renderedIsGenerating, mode, hasReference)

\* C17 witness: handleGenerate was invoked with a prompt and a selected
\* model while a request was pending, and returned without a request.
C17_Witness ==
    /\ lastOp.kind = "handleGenerateReturned"
    /\ Pending(requests) # {}
    /\ trim(currentPrompt) # ""
    /\ selectedModelId # Null

\* ---- C18 ----------------------------------------------------------------
\* C18: after a pending request was rejected with message e the guard is
\* idle and generationError is e ("Generation failed" when what was thrown
\* is no Error); the next handleGenerate with a prompt and a selected model
\* proceeds, and the request it issues is the one pending.
C18_FailureFreesGuard ==
    /\ \A i \in DOMAIN requests :
          lastOp = [kind |-> "generateFail", id |-> RequestId(i)]
          => /\ isGenerating = FALSE
             /\ requests[i].isError => generationError = requests[i].message
             /\ ~requests[i].isError => generationError = "Generation failed"
             /\ (RenderFlushed /\ trim(currentPrompt) # "" /\ selectedModelId # Null)
                => handleGenerateProceeds(currentPrompt, selectedModelId,
                                          renderedIsGenerating, "txt2img", FALSE)
    /\ \A i \in DOMAIN requests :
          (/\ lastOp = [kind |-> "handleGenerate", id |-> RequestId(i)]
           /\ i > 1
           /\ requests[i - 1].status = "failed")
          => /\ requests[i].status = "pending"
             /\ isGenerating = TRUE
             /\ generationError = Null

\* C18 witness: the first request failed with "boom", and handleGenerate has
\* just issued a second one.
C18_Witness ==
    /\ lastOp = [kind |-> "handleGenerate", id |-> RequestId(2)]
    /\ Len(requests) = 2
    /\ requests[1].status = "failed"
    /\ requests[1].message = "boom"
    /\ requests[2].status = "pending"

\* ---- C19 ----------------------------------------------------------------
\* The ids of the images in the gallery.
ImageIds == {generatedImages[k] : k \in DOMAIN generatedImages}

C21_ConnectIdempotent ==
    /\ RefState(wsRef, sockets) \in {"CONNECTING", "OPEN"}
        => connect(mountedRef, wsRef, sockets, connectionError, urlValid,
                   "reconnect", NoSocket)
             = [wsRef |-> wsRef, sockets |-> sockets,
                connectionError |-> connectionError, outcome |-> "returned"]
    /\ (lastEvent.kind \in {"mount", "reconnect"} /\ lastEvent.info = "returned")
        => \/ RefState(wsRef, sockets) \in {"CONNECTING", "OPEN"}
           \/ ~mountedRef

\* C21 witness: reconnect was called while the socket of wsRef was
\* connecting, and returned.
C21_Witness ==
    /\ lastEvent = [kind |-> "reconnect", socket |-> wsRef, info |-> "returned"]
    /\ mountedRef
    /\ RefState(wsRef, sockets) = "CONNECTING"

\* ---- C22 ----------------------------------------------------------------
\* C22: in every reachable state at most one socket is connecting or open.
C22_AtMostOneTransport ==
    Cardinality(Live(sockets)) <= 1

\* ---- C23 ----------------------------------------------------------------
\* C23: send writes the message to the socket of wsRef if and only if that
\* socket is open; with no socket, or one that is connecting, closing or
\* closed, it drops the message, and wsRef and the sockets are as before.
C23_SendIffOpen ==
    lastEvent.kind = "send"
    => /\ lastEvent.socket = wsRef
       /\ (lastEvent.info = "delivered")
            <=> (wsRef # NoSocket /\ sockets[wsRef].readyState = "OPEN")
       /\ lastEvent.info \in {"delivered", "dropped"}

\* C23 witness: send was called while the socket of wsRef was still
\* connecting, and dropped the message.
C23_Witness ==
    /\ lastEvent.kind = "send"
    /\ lastEvent.info = "dropped"
    /\ RefState(wsRef, sockets) = "CONNECTING"

\* ---- C24 ----------------------------------------------------------------
\* C24: the close of a socket with code 1000 sets no reconnect timer, and
\* no socket is ever constructed by a timer of that close.
C24_NormalClosureNoReconnect ==
    \A s \in DOMAIN sockets :
        sockets[s].code = NormalClosure
        => /\ sockets[s].timer = "none"
           /\ \A j \in DOMAIN sockets : sockets[j].by # s
           /\ lastEvent = [kind |-> "onclose", socket |-> s, info |-> callbackRefs]
              => reconnectTimeoutRef # s

\* C24 witness: onclose has handled, with the owner mounted, the close of an
\* open socket with code 1000.
C24_Witness ==
    \E s \in DOMAIN sockets :
        /\ lastEvent = [kind |-> "onclose", socket |-> s, info |-> callbackRefs]
        /\ sockets[s].code = NormalClosure
        /\ mountedRef

\* ---- C25 ----------------------------------------------------------------
\* C25: the close of a socket with a code other than 1000, handled while the
\* owner is mounted, sets one reconnect timer; the timer fires once, its
\* firing calls connect once, and at most one socket is constructed for
\* that close.
C25_OneReconnectPerClose ==
    \A s \in DOMAIN sockets :
        /\ (/\ lastEvent = [kind |-> "onclose", socket |-> s, info |-> callbackRefs]
            /\ sockets[s].code # NormalClosure)
           => /\ sockets[s].timer = "pending"
              /\ reconnectTimeoutRef = s
        /\ Cardinality({j \in DOMAIN sockets : sockets[j].by = s}) <= 1
        /\ (\E j \in DOMAIN sockets : sockets[j].by = s)
           => sockets[s].timer = "fired"
        /\ (lastEvent.kind = "timer" /\ lastEvent.socket = s)
           => /\ sockets[s].timer = "fired"
              /\ lastEvent.info = "created"
                 => /\ sockets[Len(sockets)].by = s
                    /\ wsRef = Len(sockets)

\* C25 witness: the timer set by the close of socket 1 with code 1006 has
\* fired, and its connect has constructed socket 2.
C25_Witness ==
    /\ lastEvent = [kind |-> "timer", socket |-> 1, info |-> "created"]
    /\ sockets[1].code = 1006
    /\ Len(sockets) = 2
    /\ sockets[2].by = 1

\* ---- C26 ----------------------------------------------------------------
\* C26: after the teardown of the owner no reconnect timer is pending.
C26_TeardownCancelsTimers ==
    ~mountedRef
    => \A s \in DOMAIN sockets : sockets[s].timer # "pending"

\* ---- C27 ----------------------------------------------------------------
\* A timer is pending.
TimerPending == \E s \in DOMAIN sockets : sockets[s].timer = "pending"

\* C27: a session whose attempt failed keeps retrying: after a failed
\* construction, as after a failed connection, the owner is torn down, or a
\* retry is scheduled or a socket is connecting or open.
C27_NeverStopsRetrying ==
    [](( /\ effectActive
         /\ lastEvent.info = "threw")
       => <>(\/ ~effectActive
             \/ TimerPending
             \/ Live(sockets) # {}))

\* ---- C28 ----------------------------------------------------------------
\* C28: after a construction failure, with the owner mounted, a reconnect is
\* scheduled.
C28_FailureSchedulesReconnect ==
    (lastEvent.info = "threw" /\ mountedRef) => TimerPending

\* ---- C29 ----------------------------------------------------------------
\* C29: a frame that is no JSON is dropped: onMessageRef.current is not
\* called, the models, the selection, the sockets, wsRef and isConnected are
\* as before, so that the socket is still open; and every JSON frame that
\* arrives after it is handed over (a model_status frame updates the list).
C29_UnparsableFrameDropped ==
    /\ [][(/\ lastEvent' # lastEvent
           /\ lastEvent'.kind = "onmessage"
           /\ lastEvent'.info = "dropped")
          => UNCHANGED <<models, selectedModelId, sockets, wsRef, isConnected,
                         connectionError, reconnectTimeoutRef>>]_vars
    /\ [](\A frame \in Frames : ~frame.json => ~onmessageDelivers(frame))
    /\ []((lastEvent.kind = "onmessage" /\ lastEvent.info = "dropped")
          => /\ sockets[lastEvent.socket].readyState = "OPEN"
             /\ \A frame \in Frames :
                   frame.json
                   => /\ onmessageDelivers(frame)
                      /\ frame.type = "model_status"
                         => modelsAfterFrame(models, frame)
                              = Pushed(models, frame.u))

\* C29 witness: the open socket of a connected session has dropped a frame,
\* and the list holds a record a later frame can update.
C29_Witness ==
    /\ lastEvent.kind = "onmessage"
    /\ lastEvent.info = "dropped"
    /\ lastEvent.socket = wsRef
    /\ isConnected
    /\ Len(models) > 0

C33_RestFailureMarksError ==
    /\ \A id \in ModelIds, err \in PushError \ {Null} :
          LET after == updateModelStatus(models, id, "error", Null, err)
          IN  /\ Len(after) = Len(models)
              /\ \A i \in DOMAIN models :
                    IF models[i].id = id
                    THEN /\ after[i].id = id
                         /\ after[i].state = "error"
                         /\ after[i].error = err
                    ELSE after[i] = models[i]
    /\ lastOp.kind = "restFailed"
        => \A i \in DOMAIN models :
              models[i].id = lastOp.id
              => /\ models[i].state = "error"
                 /\ models[i].error \in PushError \ {Null}

\* C33 witness: the call for one of two models has failed; its record is in
\* state error with the message of the failure, the other is not.
C33_Witness ==
    /\ lastOp.kind = "restFailed"
    /\ Len(models) = 2
    /\ \E i, j \in DOMAIN models :
          /\ models[i].id = lastOp.id
          /\ models[i].state = "error"
          /\ models[i].error = "e2"
          /\ models[j].id # lastOp.id
          /\ models[j].state = "ready"

\* ---- C37 ----------------------------------------------------------------
\* C37: a failed fetchModels leaves the models list and the selected id as
\* they were.
C37_FetchFailureKeepsRegistry ==
    [][(lastOp' # lastOp /\ lastOp'.kind = "fetchModelsFailed")
        => (models' = models /\ selectedModelId' = selectedModelId)]_vars

\* C37 witness: fetchModels has failed with two records in the list and one
\* of them selected.
C37_Witness ==
    /\ lastOp.kind = "fetchModelsFailed"
    /\ Len(models) = 2
    /\ selectedModelId \in Ids(models)

\* ---- C35 ----------------------------------------------------------------
\* C35: after every open or close event that a handler of a mounted owner
\* has handled, isConnected is true if and only if the socket of wsRef is
\* open.
C35_ConnectedIffOpen ==
    (lastEvent.kind \in {"onopen", "onclose"} /\ lastEvent.info # "ignored")
    => (isConnected <=> RefState(wsRef, sockets) = "OPEN")

\* ---- C36 ----------------------------------------------------------------
\* C36: onConnect is not called twice with no call of onDisconnect between
\* them.  ws.onopen calls setIsConnected(true) and onConnect together, and
\* ws.onclose setIsConnected(false) and onDisconnect together, so that
\* isConnected tells which of the two callbacks was called last: an onopen
\* that calls onConnect does so with isConnected false.
C36_ConnectDisconnectAlternate ==
    [][(/\ lastEvent' # lastEvent
        /\ lastEvent'.kind = "onopen"
        /\ lastEvent'.info # "ignored")
       => ~isConnected]_vars

\* ---- C32 ----------------------------------------------------------------
\* The message types that the switch of handleWebSocketMessage passes over.
NoEffectTypes ==
    {"heartbeat", "pong", "generation_start", "generation_complete",
     "generation_error", "unknown"}

\* The step is the handling of a frame that JSON.parse accepted.
OnMessageStep ==
    /\ lastEvent' # lastEvent \/ lastOp' # lastOp
    /\ lastEvent'.kind = "onmessage"
    /\ lastEvent'.info # "dropped"

\* C32: the handling of a heartbeat, pong, generation_start,
\* generation_complete or generation_error message, or of a message of an
\* unknown type, leaves the models, the selected id, isGenerating and the
\* other generation fields, isConnected, connectionError, wsRef and the
\* sockets as they were.
C32_KeepAliveNoEffect ==
    [][(OnMessageStep /\ lastOp'.kind \in NoEffectTypes)
       => UNCHANGED <<models, selectedModelId, isGenerating, generationError,
                      generatedImages, currentView, currentPrompt,
                      isConnected, connectionError, wsRef,
                      reconnectTimeoutRef, sockets>>]_vars

\* C32 witness: a generation_complete message has been handled while a
\* generation was pending, the session connected and a model listed.
C32_Witness ==
    /\ lastEvent.kind = "onmessage"
    /\ lastOp.kind = "generation_complete"
    /\ isGenerating
    /\ Pending(requests) # {}
    /\ isConnected
    /\ selectedModelId # Null
    /\ Len(models) > 0

\* ---- C38 ----------------------------------------------------------------
\* C38: a push for model id x leaves the number and the order of the
\* records, every record of another id, the selected id and the generation
\* fields as they were: for every update and every reachable list, and in
\* every step that handles a model_status message.
C38_PushChangesOneRecord ==
    /\ [](\A u \in Updates :
            /\ Len(Pushed(models, u)) = Len(models)
            /\ \A i \in DOMAIN models :
                  /\ Pushed(models, u)[i].id = models[i].id
                  /\ models[i].id # u.id => Pushed(models, u)[i] = models[i])
    /\ [][(OnMessageStep /\ lastOp'.kind = "model_status")
          => /\ UNCHANGED <<selectedModelId, isGenerating, generationError,
                            generatedImages, currentView, currentPrompt>>
             /\ Len(models') = Len(models)
             /\ \A i \in DOMAIN models :
                   /\ models'[i].id = models[i].id
                   /\ models[i].id # lastOp'.id => models'[i] = models[i]]_vars

\* C38 witness: a push has put the first of two records in state
\* downloading while a generation was pending; the second record and the
\* selection are those of the response.
C38_Witness ==
    /\ lastOp = [kind |-> "model_status", id |-> "m1"]
    /\ Len(models) = 2
    /\ models[1].state = "downloading"
    /\ models[2] = [id |-> "m2", state |-> "downloaded", progress |-> Null,
                    error |-> Null]
    /\ selectedModelId = "m1"
    /\ isGenerating

\* ---- C31 ----------------------------------------------------------------
\* C31: the handling of an initial_state message leaves the models and the
\* selected id as they were, whatever models the message carries, and sends
\* a getModels request, which the server answers with the state it holds.
C31_InitialStateIsCue ==
    [][(OnMessageStep /\ lastOp'.kind = "initial_state")
       => /\ UNCHANGED <<models, selectedModelId>>
          /\ serverState \in responses']_vars

\* C31 witness: an initial_state message that lists m1 has been handled, the
\* list is still empty and the response to the request is in flight.
C31_Witness ==
    /\ lastEvent.kind = "onmessage"
    /\ lastOp = [kind |-> "initial_state", id |-> "m1"]
    /\ models = <<>>
    /\ serverState \in responses

\* ---- C34 ----------------------------------------------------------------
\* C34: when from some point on the owner is active, the socket of wsRef is
\* open and the state of m1 at the server is st for good, then from some
\* point on the list holds m1 in state st.
C34_EventuallyConsistent ==
    \A st \in ServerStates :
        <>[](/\ effectActive
             /\ RefState(wsRef, sockets) = "OPEN"
             /\ serverState = st)
        => <>[](/\ Len(models) = 1
                /\ models[1].id = "m1"
                /\ models[1].state = st)

====
